---- MODULE Spec2Model ----
(***************************************************************************)
(* State-machine model of the cacophony render runtime: the EventQueue     *)
(* with its resize detection (render/event.rs), the per-frame Runtime loop *)
(* (render/runtime.rs), the Camera (render/camera.rs) and the surface      *)
(* configuration of the WgpuContext (render/wgpu_context.rs).              *)
(*                                                                         *)
(* Units.  Angles are integers in micro-radians, lengths in micro-units,   *)
(* timestamps in milliseconds.  A size is a pair <<width, height>>; the    *)
(* camera aspect is kept as the pair <<w, h>> standing for the ratio w/h.  *)
(* The host runs one callback to completion at a time (the page's single   *)
(* thread), so pc names the position inside the running frame and every    *)
(* other callback waits until the frame callback has returned.  The        *)
(* history variables record what was appended, popped and done, the        *)
(* timestamps the host passed and the changes of the host's size; no       *)
(* action reads them except to bound the model.  The chunk mesh built by   *)
(* ChunkBuffers::generate and the functions that are applied on their own  *)
(* (the extract functions, the KeyTracker, handle_event on a resize        *)
(* report, the noise source of noise/source.rs and the baking of its       *)
(* texture) have their own variables and specifications.                   *)
(***************************************************************************)
EXTENDS Integers, Sequences, FiniteSets, TLC

VARIABLES
    client,          \* host layout size of the canvas: <<client_width, client_height>>
    canvas,          \* the canvas's stored size: <<canvas.width(), canvas.height()>>
    events,          \* EventQueue.events
    context,         \* WgpuContext: [size, config]
    camera,          \* Camera: [eye, yaw, pitch, aspect]
    keyboard,        \* KeyTracker.keys: a map from the keys seen to BOOLEAN
    frames,          \* Runtime.frames
    last_frame,      \* Runtime.last_frame
    time,            \* history: the timestamp the host passed to the latest frame
                     \* callback, in milliseconds since the session's time origin
    render_closure,  \* Runtime.render_closure is Some
    self_ref,        \* Runtime.self_ref is Some
    pending,         \* animation-frame requests the host has not yet served
    pc,              \* position of the running frame callback
    dt,              \* the running frame's dt, in milliseconds
    enqueued,        \* history: every event ever appended, in order
    popped,          \* history: every event ever returned by pop, in order
    steps,           \* history: the steps the current (or last) frame has done
    mark,            \* history: Len(enqueued) when the current frame's drain began
    checks,          \* history: for each queued event, the detect_resize calls
                     \* made since it was appended: <<all calls, calls by a frame>>
    mesh,            \* ChunkBuffers::generate: its arguments, locals and result
    call,            \* the last call of a function applied on its own
    changes          \* history: how many times the host-reported size has changed

\* the state outside the runtime: no handler and no frame touches it
apart == <<mesh, call, changes>>

vars == <<client, canvas, events, context, camera, keyboard, frames, last_frame,
          time, render_closure, self_ref, pending, pc, dt, enqueued, popped, steps,
          mark, checks, mesh, call, changes>>

-----------------------------------------------------------------------------
(* Bounds of the model *)

MaxEvents == 3
MaxFrames == 2
\* the number of times the host changes the canvas's layout size
MaxChanges == 2

\* host layout sizes the canvas can be given: below the minimum, wider, and
\* wider and taller
ClientSizes == {<<100, 100>>, <<300, 100>>, <<300, 200>>}
\* the two of them that differ in width only
WidthSizes == {<<100, 100>>, <<300, 100>>}
\* the canvas element's width/height attributes before the context is built
InitCanvasSizes == {<<300, 150>>}
\* time between two frame timestamps, in milliseconds
FrameDeltas == {100}
\* modifier flags of an input event
Mods == {[alt_key |-> FALSE, ctrl_key |-> FALSE, shift_key |-> FALSE, meta_key |-> FALSE]}
\* raw keyboard events of the host; key strings are sequences of characters
RawKey(k) == [mods : Mods, key : {k}]
\* raw mouse events of the host, by movement_y
RawMouse(dys) == [mods : Mods, button : {0}, movement_x : {0}, movement_y : dys]

-----------------------------------------------------------------------------
(* util.rs *)

MinCanvas == 150

Max(a, b) == IF a >= b THEN a ELSE b

get_expected_size(cl) == <<Max(cl[1], MinCanvas), Max(cl[2], MinCanvas)>>

-----------------------------------------------------------------------------
(* render/event.rs: key and button extraction *)

Character(c) == [kind |-> "Character", ch |-> c]
Named(n) == [kind |-> n, ch |-> ""]

\* characters of the host's key strings that take two bytes in UTF-8; every
\* other character of the model takes one
TwoByteChars == {"U+00E9"}

Utf8Len(c) == IF c \in TwoByteChars THEN 2 ELSE 1

\* str::len: the length in bytes
RECURSIVE str_len(_)
str_len(key) == IF key = <<>> THEN 0 ELSE Utf8Len(Head(key)) + str_len(Tail(key))

\* extract that takes the first character of any unnamed key string
KeyboardKey_extract_first_char(key) ==
    IF key # <<>> THEN Character(key[1]) ELSE Named("Unidentified")

KeyboardKey_extract(key) ==
    CASE key = <<"A","l","t">> -> Named("Alt")
      [] key = <<"A","l","t","G","r","a","p","h">> -> Named("AltGr")
      [] key = <<"C","a","p","s","L","o","c","k">> -> Named("CapsLock")
      [] key = <<"C","o","n","t","r","o","l">> -> Named("Control")
      [] key = <<"F","n">> -> Named("Fn")
      [] key = <<"F","n","L","o","c","k">> -> Named("FnLock")
      [] key = <<"H","y","p","e","r">> -> Named("Hyper")
      [] key = <<"M","e","t","a">> -> Named("Meta")
      [] key = <<"N","u","m","L","o","c","k">> -> Named("Meta")
      [] key = <<"S","c","r","o","l","l","L","o","c","k">> -> Named("ScrollLock")
      [] key = <<"S","h","i","f","t">> -> Named("Shift")
      [] key = <<"S","u","p","e","r">> -> Named("Super")
      [] key = <<"S","y","m","b","o","l">> -> Named("Symbol")
      [] key = <<"S","y","m","b","o","l","L","o","c","k">> -> Named("Symbol")
      [] key = <<"D","e","a","d">> -> Named("Dead")
      [] OTHER -> IF str_len(key) = 1 THEN Character(key[1]) ELSE Named("Unidentified")

MouseButton_extract(button) ==
    CASE button = 0 -> [kind |-> "Left", n |-> 0]
      [] button = 1 -> [kind |-> "Middle", n |-> 0]
      [] button = 2 -> [kind |-> "Right", n |-> 0]
      [] OTHER -> [kind |-> "OtherButton", n |-> button]

KeyboardEventData_extract(raw) ==
    [mods |-> raw.mods, key |-> KeyboardKey_extract(raw.key)]

MouseEventData_extract(raw) ==
    [mods |-> raw.mods, button |-> MouseButton_extract(raw.button % 256),
     movement_x |-> raw.movement_x, movement_y |-> raw.movement_y]

\* the Event variants
KeyEvent(type, data) == [type |-> type, key |-> data]
MouseEvent(type, data) == [type |-> type, mouse |-> data]
CanvasResize(old, new) == [type |-> "CanvasResize", old |-> old, new |-> new]

-----------------------------------------------------------------------------
(* render/event.rs: EventQueue.  A queue value is the pair of the fields   *)
(* the methods touch: [events, canvas].                                    *)

enqueue_inner(q, event) == [q EXCEPT !.events = Append(@, event)]

\* detect_resize that tells a resize only when both dimensions differ
detect_resize_both(q, cl) ==
    LET new == get_expected_size(cl) IN
    IF new[1] # q.canvas[1] /\ new[2] # q.canvas[2]
    THEN LET set == [q EXCEPT !.canvas = new]
         IN  enqueue_inner(set, CanvasResize(set.canvas, new))
    ELSE q

\* detect_resize that reads the canvas's size before it sets the new one
detect_resize_old_first(q, cl) ==
    LET new == get_expected_size(cl) IN
    IF new[1] # q.canvas[1] \/ new[2] # q.canvas[2]
    THEN LET set == [q EXCEPT !.canvas = new]
         IN  enqueue_inner(set, CanvasResize(q.canvas, new))
    ELSE q

\* detect_resize that does not set the new size on the canvas
detect_resize_keeps_size(q, cl) ==
    LET new == get_expected_size(cl) IN
    IF new[1] # q.canvas[1] \/ new[2] # q.canvas[2]
    THEN enqueue_inner(q, CanvasResize(new, new))
    ELSE q

detect_resize(q, cl) ==
    LET new == get_expected_size(cl) IN
    IF new[1] # q.canvas[1] \/ new[2] # q.canvas[2]
    THEN LET set == [q EXCEPT !.canvas = new]
         IN  enqueue_inner(set, CanvasResize(set.canvas, new))
    ELSE q

\* enqueue that appends the event before it checks for a resize
enqueue_then_detect(q, cl, event) == detect_resize(enqueue_inner(q, event), cl)

enqueue(q, cl, event) == enqueue_inner(detect_resize(q, cl), event)

\* pop on a non-empty queue (pop_front): the event returned and what is left
pop_back(evs) == [event |-> evs[Len(evs)], rest |-> SubSeq(evs, 1, Len(evs) - 1)]

pop(evs) == [event |-> Head(evs), rest |-> Tail(evs)]

Queue == [events |-> events, canvas |-> canvas]

-----------------------------------------------------------------------------
(* render/event.rs: KeyTracker *)

KeyTracker_new == <<>>

\* set_key_down that keeps the entry of a key it has seen (entry().or_insert)
set_key_down_or_insert(keys, key) ==
    [k \in (DOMAIN keys) \cup {key} |-> IF k \in DOMAIN keys THEN keys[k] ELSE TRUE]

set_key_down(keys, key) ==
    [k \in (DOMAIN keys) \cup {key} |-> IF k = key THEN TRUE ELSE keys[k]]

set_key_up(keys, key) ==
    [k \in (DOMAIN keys) \cup {key} |-> IF k = key THEN FALSE ELSE keys[k]]

is_key_down(keys, key) == IF key \in DOMAIN keys THEN keys[key] ELSE FALSE

-----------------------------------------------------------------------------
(* render/wgpu_context.rs: the surface configuration *)

\* resize that accepts a size of which one dimension is positive
WgpuContext_resize_either(ctx, new_size) ==
    IF new_size[1] > 0 \/ new_size[2] > 0
    THEN [ctx EXCEPT !.size = new_size, !.config = new_size]
    ELSE ctx

WgpuContext_resize(ctx, new_size) ==
    IF new_size[1] > 0 /\ new_size[2] > 0
    THEN [ctx EXCEPT !.size = new_size, !.config = new_size]
    ELSE ctx

-----------------------------------------------------------------------------
(* render/camera.rs *)

\* cos and sin of a yaw, times 1000, for the yaws the model reaches: the
\* multiples of QuarterTurn = 1.57 rad (cos 1.57 = 0.0008, cos 3.14 = -1.0000,
\* cos 4.71 = -0.0024, cos 6.28 = 1.0000; sin 1.57 = 1.0000, sin 3.14 = 0.0016,
\* sin 4.71 = -1.0000, sin 6.28 = -0.0032)
QuarterTurn == 785 * 2000

CosTable == <<1000, 1, -1000, -2, 1000>>
SinTable == <<0, 1000, 2, -1000, -3>>

Abs(x) == IF x < 0 THEN -x ELSE x

CosMilli(yaw) == CosTable[(Abs(yaw) \div QuarterTurn) + 1]
SinMilli(yaw) ==
    IF yaw < 0 THEN -SinTable[(Abs(yaw) \div QuarterTurn) + 1]
    ELSE SinTable[(yaw \div QuarterTurn) + 1]

\* get_forward, times 1000
get_forward(cam) == <<CosMilli(cam.yaw), 0, SinMilli(cam.yaw)>>

\* get_forward().cross(up).normalize(), times 1000, for up = (0, 1, 0)
get_right(cam) == <<-SinMilli(cam.yaw), 0, CosMilli(cam.yaw)>>

\* up.normalize(), times 1000
get_up(cam) == <<0, 1000, 0>>

Scaled(v, amount) == <<(v[1] * amount) \div 1000, (v[2] * amount) \div 1000,
                       (v[3] * amount) \div 1000>>

Plus(p, v) == <<p[1] + v[1], p[2] + v[2], p[3] + v[3]>>

do_move(cam, forward, right, up) ==
    [cam EXCEPT !.eye = Plus(Plus(Plus(@, Scaled(get_forward(cam), forward)),
                                  Scaled(get_right(cam), right)),
                             Scaled(get_up(cam), up))]

-----------------------------------------------------------------------------
(* render/runtime.rs: handle_event.  A runtime value is the record of the  *)
(* fields handle_event touches: [context, camera, keyboard].               *)

\* movement * 0.002 rad, in micro-radians
MouseSensitivity == 2000

\* 3.14 / 2.0, in micro-radians
PitchLimit == 3140000 \div 2

\* a clamp that forgets the upper pole
ClampPitch_lower_only(p) == IF p < -PitchLimit THEN -PitchLimit ELSE p

ClampPitch(p) ==
    IF p > PitchLimit THEN PitchLimit
    ELSE IF p < -PitchLimit THEN -PitchLimit
    ELSE p

\* handle_event that clamps the yaw as it clamps the pitch
handle_event_clamps_yaw(rt, event) ==
    CASE event.type = "CanvasResize" ->
            [rt EXCEPT !.context = WgpuContext_resize(@, event.new),
                       !.camera.aspect = event.new]
      [] event.type = "MouseMove" ->
            [rt EXCEPT !.camera.yaw =
                            ClampPitch(@ + event.mouse.movement_x * MouseSensitivity),
                       !.camera.pitch =
                            ClampPitch(@ - event.mouse.movement_y * MouseSensitivity)]
      [] event.type = "KeyDown" ->
            [rt EXCEPT !.keyboard = set_key_down(@, event.key.key)]
      [] event.type = "KeyUp" ->
            [rt EXCEPT !.keyboard = set_key_up(@, event.key.key)]
      [] OTHER -> rt

handle_event(rt, event) ==
    CASE event.type = "CanvasResize" ->
            [rt EXCEPT !.context = WgpuContext_resize(@, event.new),
                       !.camera.aspect = event.new]
      [] event.type = "MouseMove" ->
            [rt EXCEPT !.camera.yaw = @ + event.mouse.movement_x * MouseSensitivity,
                       !.camera.pitch =
                            ClampPitch(@ - event.mouse.movement_y * MouseSensitivity)]
      [] event.type = "KeyDown" ->
            [rt EXCEPT !.keyboard = set_key_down(@, event.key.key)]
      [] event.type = "KeyUp" ->
            [rt EXCEPT !.keyboard = set_key_up(@, event.key.key)]
      [] OTHER -> rt

\* SPEED = 0.5 units per second: micro-units per millisecond of dt
SPEED == 500

Dir(keys, plus, minus) ==
    (IF is_key_down(keys, plus) THEN 1 ELSE 0)
        - (IF is_key_down(keys, minus) THEN 1 ELSE 0)

\* a movement whose opposite keys are tested in an else-if chain: the first
\* one held wins
move_camera_else_if(cam, keys, d) ==
    LET First(plus, minus) ==
            IF is_key_down(keys, plus) THEN 1
            ELSE IF is_key_down(keys, minus) THEN -1 ELSE 0
    IN  do_move(cam,
                SPEED * First(Character("w"), Character("s")) * d,
                SPEED * First(Character("d"), Character("a")) * d,
                SPEED * First(Character(" "), Named("Shift")) * d)

\* lines 74-99 of render: the movement derived from the held keys, applied
move_camera(cam, keys, d) ==
    do_move(cam,
            SPEED * Dir(keys, Character("w"), Character("s")) * d,
            SPEED * Dir(keys, Character("d"), Character("a")) * d,
            SPEED * Dir(keys, Character(" "), Named("Shift")) * d)

Rt == [context |-> context, camera |-> camera, keyboard |-> keyboard]

-----------------------------------------------------------------------------
(* The initial state: main.rs run_main, WgpuContext::new, Runtime::new *)

\* the runtime model leaves the chunk mesh out: WgpuContext::new builds it
\* once, before the first frame, and no handler or frame changes it
NoMesh == [phase |-> "none"]

\* no function has been applied on its own
NoCall == [op |-> "none"]

Init ==
    /\ client \in WidthSizes
    /\ canvas = get_expected_size(client)
    /\ events = <<>>
    /\ context = [size |-> canvas, config |-> canvas]
    /\ \E a \in InitCanvasSizes :
          camera = [eye |-> <<0, 1000000, 0>>, yaw |-> 0, pitch |-> 0, aspect |-> a]
    /\ keyboard = KeyTracker_new
    /\ frames = 0
    /\ last_frame = 0
    /\ time = 0
    /\ render_closure = TRUE
    /\ self_ref = TRUE
    /\ pending = 1
    /\ pc = "idle"
    /\ dt = 0
    /\ enqueued = <<>>
    /\ popped = <<>>
    /\ steps = <<>>
    /\ mark = 0
    /\ checks = <<>>
    /\ mesh = NoMesh
    /\ call = NoCall
    /\ changes = 0

-----------------------------------------------------------------------------
(* The host *)

\* a host that runs input handlers in the middle of a frame's drain
HostIdle_or_draining == pc = "idle" \/ pc = "panicked" \/ pc = "drain"

\* the host is between callbacks; a frame that panicked has returned to it
HostIdle == pc = "idle" \/ pc = "panicked"

\* the user resizes the window: the canvas's layout size changes, and with it
\* the size get_expected_size reports
HostResize(c) ==
    /\ HostIdle
    /\ c # client
    /\ changes < MaxChanges
    /\ client' = c
    /\ changes' = changes +
            (IF get_expected_size(c) # get_expected_size(client) THEN 1 ELSE 0)
    /\ UNCHANGED <<canvas, events, context, camera, keyboard, frames, last_frame, time,
                   render_closure, self_ref, pending, pc, dt, enqueued, popped,
                   steps, mark,
                   checks, mesh, call>>

-----------------------------------------------------------------------------
(* render/event.rs: the input handlers installed by EventQueue::for_canvas *)

Mismatch == get_expected_size(client) # canvas

\* the events a handler call appended
Appended(q) == SubSeq(q.events, Len(events) + 1, Len(q.events))

\* history: a call of detect_resize ran over the queued events (by a frame or
\* by a handler) and n events were appended by it or after it
Checked(chk, n, by_frame) ==
    [i \in 1..Len(chk) |->
        <<chk[i][1] + 1, chk[i][2] + (IF by_frame THEN 1 ELSE 0)>>]
        \o [i \in 1..n |-> <<0, 0>>]

\* the event a handler builds from the host's event object: the keyboard
\* handlers extract KeyboardEventData, the mouse handlers MouseEventData
HandlerEvent(type, raw) ==
    IF type = "KeyDown" \/ type = "KeyUp"
    THEN KeyEvent(type, KeyboardEventData_extract(raw))
    ELSE MouseEvent(type, MouseEventData_extract(raw))

\* a handler that also reconfigures the surface when it finds a resize
Handler_resizing_surface(type, raw) ==
    LET q == enqueue(Queue, client, HandlerEvent(type, raw)) IN
    /\ HostIdle
    /\ Len(enqueued) + Len(Appended(q)) <= MaxEvents
    /\ events' = q.events
    /\ canvas' = q.canvas
    /\ enqueued' = enqueued \o Appended(q)
    /\ checks' = Checked(checks, Len(Appended(q)), FALSE)
    /\ context' = WgpuContext_resize(context, q.canvas)
    /\ UNCHANGED <<client, camera, keyboard, frames, last_frame, time,
                   render_closure, self_ref, pending, pc, dt, popped, steps, mark,
                   apart>>

\* a handler's call of enqueue(event) on the event it extracted
Handler(type, raw) ==
    LET q == enqueue(Queue, client, HandlerEvent(type, raw)) IN
    /\ HostIdle
    /\ Len(enqueued) + Len(Appended(q)) <= MaxEvents
    /\ events' = q.events
    /\ canvas' = q.canvas
    /\ enqueued' = enqueued \o Appended(q)
    /\ checks' = Checked(checks, Len(Appended(q)), FALSE)
    /\ UNCHANGED <<client, context, camera, keyboard, frames, last_frame, time,
                   render_closure, self_ref, pending, pc, dt, popped, steps, mark,
                   apart>>

keydown_handler(raw) == Handler("KeyDown", raw)

keyup_handler(raw) == Handler("KeyUp", raw)

mousedown_handler(raw) == Handler("MouseDown", raw)

mouseup_handler(raw) == Handler("MouseUp", raw)

mousemove_handler(raw) == Handler("MouseMove", raw)

-----------------------------------------------------------------------------
(* render/runtime.rs: the frame callback *)

\* request_animation_frame: a request is made only while the closure exists
request_animation_frame(n) == IF render_closure THEN n + 1 ELSE n

\* the host serves a request whose closure cleanup has dropped: the call
\* throws in the host and render does not run
DroppedFrame ==
    /\ pc = "idle"
    /\ pending > 0
    /\ ~render_closure
    /\ pending' = pending - 1
    /\ UNCHANGED <<client, canvas, events, context, camera, keyboard, frames,
                   last_frame, time, render_closure, self_ref, pc, dt, enqueued, popped,
                   steps, mark,
                   checks, apart>>

\* a render that stores the timestamp in last_frame before it computes dt
RenderBegin_dt_after_store(d) ==
    LET q == detect_resize(Queue, client) IN
    /\ pc = "idle"
    /\ pending > 0
    /\ render_closure
    /\ frames < MaxFrames
    /\ Len(enqueued) + Len(Appended(q)) <= MaxEvents
    /\ time' = time + d
    /\ last_frame' = time'
    /\ dt' = time' - last_frame'
    /\ pending' = pending - 1
    /\ events' = q.events
    /\ canvas' = q.canvas
    /\ enqueued' = enqueued \o Appended(q)
    /\ checks' = Checked(checks, Len(Appended(q)), TRUE)
    /\ mark' = Len(enqueued')
    /\ steps' = <<"detect_resize">>
    /\ pc' = "drain"
    /\ UNCHANGED <<client, context, camera, keyboard, frames, render_closure,
                   self_ref, popped,
                   apart>>

\* render, lines 66-69: the host calls render(time) d milliseconds after the
\* previous frame's timestamp (after the time origin, for the first frame);
\* dt, last_frame, and the frame's resize check
RenderBegin(d) ==
    LET q == detect_resize(Queue, client) IN
    /\ pc = "idle"
    /\ pending > 0
    /\ render_closure
    /\ frames < MaxFrames
    /\ Len(enqueued) + Len(Appended(q)) <= MaxEvents
    /\ time' = time + d
    /\ dt' = time' - last_frame
    /\ last_frame' = time'
    /\ pending' = pending - 1
    /\ events' = q.events
    /\ canvas' = q.canvas
    /\ enqueued' = enqueued \o Appended(q)
    /\ checks' = Checked(checks, Len(Appended(q)), TRUE)
    /\ mark' = Len(enqueued')
    /\ steps' = <<"detect_resize">>
    /\ pc' = "drain"
    /\ UNCHANGED <<client, context, camera, keyboard, frames, render_closure,
                   self_ref, popped,
                   apart>>

\* render, lines 70-72: one turn of the drain loop, pop returned Some(event)
DrainEvent ==
    /\ pc = "drain"
    /\ events # <<>>
    /\ LET p == pop(events)
           rt == handle_event(Rt, p.event)
       IN  /\ events' = p.rest
           /\ popped' = Append(popped, p.event)
           /\ checks' = Tail(checks)
           /\ context' = rt.context
           /\ camera' = rt.camera
           /\ keyboard' = rt.keyboard
    /\ steps' = Append(steps, "handle_event")
    /\ UNCHANGED <<client, canvas, frames, last_frame, time, render_closure, self_ref,
                   pending, pc, dt, enqueued, mark,
                   apart>>

\* a render that handles at most one event per frame (if let, not while let)
MoveCamera_after_one_event ==
    /\ pc = "drain"
    /\ events = <<>> \/ Len(steps) > 1
    /\ camera' = move_camera(camera, keyboard, dt)
    /\ steps' = Append(steps, "do_move")
    /\ pc' = "draw"
    /\ UNCHANGED <<client, canvas, events, context, keyboard, frames, last_frame, time,
                   render_closure, self_ref, pending, dt, enqueued, popped, mark,
                   checks, apart>>

\* render, lines 70-99: pop returned None, the loop ends; the movement is
\* derived from the held keys and applied to the camera
MoveCamera ==
    /\ pc = "drain"
    /\ events = <<>>
    /\ camera' = move_camera(camera, keyboard, dt)
    /\ steps' = Append(steps, "do_move")
    /\ pc' = "draw"
    /\ UNCHANGED <<client, canvas, events, context, keyboard, frames, last_frame, time,
                   render_closure, self_ref, pending, dt, enqueued, popped, mark,
                   checks, apart>>

\* a render that requests the next frame before it submits the draw
DrawFrame_request_first ==
    /\ pc = "draw"
    /\ frames' = frames + 1
    /\ pending' = request_animation_frame(pending)
    /\ steps' = steps \o <<"request_animation_frame", "render">>
    /\ pc' = "idle"
    /\ UNCHANGED <<client, canvas, events, context, camera, keyboard, last_frame, time,
                   render_closure, self_ref, dt, enqueued, popped, mark,
                   checks, apart>>

\* render, lines 101-105: the draw submission succeeded; the frame is
\* counted and the next one requested
DrawFrame ==
    /\ pc = "draw"
    /\ frames' = frames + 1
    /\ pending' = request_animation_frame(pending)
    /\ steps' = steps \o <<"render", "request_animation_frame">>
    /\ pc' = "idle"
    /\ UNCHANGED <<client, canvas, events, context, camera, keyboard, last_frame, time,
                   render_closure, self_ref, dt, enqueued, popped, mark,
                   checks, apart>>

\* render, line 101: the draw submission returned a SurfaceError and unwrap
\* panics; the rest of render does not run
DrawFails ==
    /\ pc = "draw"
    /\ steps' = Append(steps, "render")
    /\ pc' = "panicked"
    /\ UNCHANGED <<client, canvas, events, context, camera, keyboard, frames,
                   last_frame, time, render_closure, self_ref, pending, dt, enqueued,
                   popped, mark,
                   checks, apart>>

\* a cleanup that releases the self-reference and keeps the closure
cleanup_keeps_closure ==
    /\ pc = "idle"
    /\ self_ref' = FALSE
    /\ UNCHANGED <<client, canvas, events, context, camera, keyboard, frames,
                   last_frame, time, render_closure, pending, pc, dt, enqueued, popped,
                   steps, mark,
                   checks, apart>>

\* cleanup, called between frames
cleanup ==
    /\ pc = "idle"
    /\ self_ref' = FALSE
    /\ render_closure' = FALSE
    /\ UNCHANGED <<client, canvas, events, context, camera, keyboard, frames,
                   last_frame, time, pending, pc, dt, enqueued, popped, steps, mark,
                   checks, apart>>

-----------------------------------------------------------------------------

\* the whole program: every handler, the frame loop, cleanup, failing draws
Next ==
    \/ \E c \in WidthSizes : HostResize(c)
    \/ \E raw \in RawKey(<<"w">>) : keydown_handler(raw)
    \/ \E raw \in RawKey(<<"w">>) : keyup_handler(raw)
    \/ \E raw \in RawMouse({800}) : mousedown_handler(raw)
    \/ \E raw \in RawMouse({800}) : mouseup_handler(raw)
    \/ \E raw \in RawMouse({800}) : mousemove_handler(raw)
    \/ DroppedFrame
    \/ \E d \in FrameDeltas : RenderBegin(d)
    \/ DrainEvent
    \/ MoveCamera
    \/ DrawFrame
    \/ DrawFails
    \/ cleanup

Spec == Init /\ [][Next]_vars

\* resizes in width and in height, against one input handler and the frames
NextResize ==
    \/ \E c \in ClientSizes : HostResize(c)
    \/ \E raw \in RawKey(<<"w">>) : keydown_handler(raw)
    \/ \E d \in FrameDeltas : RenderBegin(d)
    \/ DrainEvent
    \/ MoveCamera
    \/ DrawFrame

SpecResize == Init /\ [][NextResize]_vars

\* the camera: mouse moves up and down, the forward key, and the frames
NextCamera ==
    \/ \E raw \in RawMouse({-500, 500}) : mousemove_handler(raw)
    \/ \E raw \in RawKey(<<"w">>) : keydown_handler(raw)
    \/ \E d \in FrameDeltas : RenderBegin(d)
    \/ DrainEvent
    \/ MoveCamera
    \/ DrawFrame

SpecCamera == Init /\ [][NextCamera]_vars

\* the key strings of the six movement keys
MoveStrings ==
    { <<"w">>, <<"s">>, <<"a">>, <<"d">>, <<" ">>, <<"S","h","i","f","t">> }

\* raw mouse events of the host, by movement_x
RawMouseX(dxs) == [mods : Mods, button : {0}, movement_x : dxs, movement_y : {0}]

\* the movement keys going down, a mouse move that turns the camera by a
\* quarter turn, and the frames
NextMove ==
    \/ \E s \in MoveStrings : \E raw \in RawKey(s) : keydown_handler(raw)
    \/ \E raw \in RawMouseX({785}) : mousemove_handler(raw)
    \/ \E d \in FrameDeltas : RenderBegin(d)
    \/ DrainEvent
    \/ MoveCamera
    \/ DrawFrame

SpecMove == Init /\ [][NextMove]_vars

\* the key strings of the forward and the backward key
KeyPairStrings == { <<"w">>, <<"s">> }

\* times between two frame timestamps: a 60 Hz frame and a slow one
ClockDeltas == {16, 100}

\* two keys going down and up, and frames at varying intervals
NextKeys ==
    \/ \E s \in KeyPairStrings : \E raw \in RawKey(s) : keydown_handler(raw)
    \/ \E s \in KeyPairStrings : \E raw \in RawKey(s) : keyup_handler(raw)
    \/ \E d \in ClockDeltas : RenderBegin(d)
    \/ DrainEvent
    \/ MoveCamera
    \/ DrawFrame

SpecKeys == Init /\ [][NextKeys]_vars

\* raw mouse events that move a quarter turn sideways and 1.6 rad upwards
RawMouseBoth == [mods : Mods, button : {0}, movement_x : {785}, movement_y : {-800}]

\* events of every type: a resize, a key going down and up, the mouse
\* buttons, a mouse move, and the frames that handle them
NextEvents ==
    \/ \E c \in WidthSizes : HostResize(c)
    \/ \E raw \in RawKey(<<"w">>) : keydown_handler(raw)
    \/ \E raw \in RawKey(<<"w">>) : keyup_handler(raw)
    \/ \E raw \in RawMouseBoth : mousedown_handler(raw)
    \/ \E raw \in RawMouseBoth : mouseup_handler(raw)
    \/ \E raw \in RawMouseBoth : mousemove_handler(raw)
    \/ \E d \in FrameDeltas : RenderBegin(d)
    \/ DrainEvent
    \/ MoveCamera
    \/ DrawFrame

SpecEvents == Init /\ [][NextEvents]_vars

-----------------------------------------------------------------------------
(* Functions applied on their own, on inputs the running program need not  *)
(* produce: handle_event on a resize report, the KeyTracker methods, and   *)
(* the two extract functions.                                              *)

\* sizes a resize report can carry (u32): zero, and two positive values
ReportSizes == {0, 150, 300} \X {0, 150, 300}

\* the host's key strings of the named keys
NamedKeyStrings ==
    { <<"A","l","t">>, <<"A","l","t","G","r","a","p","h">>,
      <<"C","a","p","s","L","o","c","k">>, <<"C","o","n","t","r","o","l">>,
      <<"F","n">>, <<"F","n","L","o","c","k">>, <<"H","y","p","e","r">>,
      <<"M","e","t","a">>, <<"N","u","m","L","o","c","k">>,
      <<"S","c","r","o","l","l","L","o","c","k">>, <<"S","h","i","f","t">>,
      <<"S","u","p","e","r">>, <<"S","y","m","b","o","l">>,
      <<"S","y","m","b","o","l","L","o","c","k">>, <<"D","e","a","d">> }

\* key strings the host can report: the named ones, single characters (one
\* of them of two bytes), the empty string, and strings extract does not know
KeyStrings ==
    NamedKeyStrings \cup
    { <<"w">>, <<"W">>, <<" ">>, <<"U+00E9">>, <<>>,
      <<"E","n","t","e","r">>, <<"F","1">>, <<"a","l","t">>,
      <<"A","l","t","G","r">>,
      <<"U","n","i","d","e","n","t","i","f","i","e","d">> }

\* the key strings whose keys the KeyTracker is told about
TrackedStrings == { <<"w">>, <<"s">>, <<"S","h","i","f","t">> }

\* button numbers (u8)
Buttons == (0..4) \cup {255}

\* the runtime state that a function applied on its own leaves alone
loop == <<client, changes, canvas, events, frames, last_frame, time, render_closure, self_ref,
          pending, pc, dt, enqueued, popped, steps, mark, checks>>

\* Runtime::handle_event on a CanvasResize report of the size new
ResizeReport(new) ==
    LET event == CanvasResize(new, new)
        rt == handle_event(Rt, event)
    IN  /\ context' = rt.context
        /\ camera' = rt.camera
        /\ keyboard' = rt.keyboard
        /\ call' = [op |-> "handle_event", arg |-> event]
        /\ UNCHANGED <<loop, mesh>>

\* KeyTracker::set_key_down on the key of the key string s
SetKeyDown(s) ==
    /\ keyboard' = set_key_down(keyboard, KeyboardKey_extract(s))
    /\ call' = [op |-> "set_key_down", arg |-> KeyboardKey_extract(s)]
    /\ UNCHANGED <<loop, context, camera, mesh>>

\* KeyTracker::set_key_up on the key of the key string s
SetKeyUp(s) ==
    /\ keyboard' = set_key_up(keyboard, KeyboardKey_extract(s))
    /\ call' = [op |-> "set_key_up", arg |-> KeyboardKey_extract(s)]
    /\ UNCHANGED <<loop, context, camera, mesh>>

\* KeyboardKey::extract on the key string s
ExtractKey(s) ==
    /\ call' = [op |-> "KeyboardKey::extract", arg |-> s,
                result |-> KeyboardKey_extract(s)]
    /\ UNCHANGED <<loop, context, camera, keyboard, mesh>>

\* MouseButton::extract on the button number b
ExtractButton(b) ==
    /\ call' = [op |-> "MouseButton::extract", arg |-> b,
                result |-> MouseButton_extract(b)]
    /\ UNCHANGED <<loop, context, camera, keyboard, mesh>>

NextCalls ==
    \/ \E new \in ReportSizes : ResizeReport(new)
    \/ \E s \in TrackedStrings : SetKeyDown(s)
    \/ \E s \in TrackedStrings : SetKeyUp(s)
    \/ \E s \in KeyStrings : ExtractKey(s)
    \/ \E b \in Buttons : ExtractButton(b)

SpecCalls == Init /\ [][NextCalls]_vars

-----------------------------------------------------------------------------
(* render/wgpu_context.rs: ChunkBuffers::generate.  A coordinate is an      *)
(* integer number of units of 1/(size-1), so that the interior points,      *)
(* which are multiples of (size+1)/(size-1), are exact.  A density is a     *)
(* number of hundredths.  A UV component is a fraction <<num, den>>.        *)

\* the unit of the coordinates is 1/Unit(size)
Unit(size) == IF size > 1 THEN size - 1 ELSE 1

\* a u32 subtraction a - b overflows
Underflows(a, b) == a - b < 0

\* lines 82-96: the points of the bottom and top edges, for i in 0..size
edge_points_x(size) ==
    [n \in 1..2 * size |->
        LET i == (n - 1) \div 2 IN
        IF n % 2 = 1 THEN <<i * Unit(size), 0>>
        ELSE <<i * Unit(size), (size - 1) * Unit(size)>>]

\* lines 98-112: the points of the left and right edges, for i in 1..size-1
edge_points_y(size) ==
    [n \in 1..2 * (size - 2) |->
        LET i == ((n - 1) \div 2) + 1 IN
        IF n % 2 = 1 THEN <<0, i * Unit(size)>>
        ELSE <<(size - 1) * Unit(size), i * Unit(size)>>]

\* line 115: ceil(inner_size * density)
num_inner_points(size, density) == ((size - 2) * density + 99) \div 100

\* lines 117-129: x = (i+1)/(size-1) * (size+1), y = (j+1)/(size-1) * (size+1)
inner_points(size, num) ==
    [n \in 1..num * num |->
        LET i == (n - 1) \div num
            j == (n - 1) % num
        IN  <<(i + 1) * (size + 1), (j + 1) * (size + 1)>>]

\* twice the signed area of the triangle a, b, c
Orient(a, b, c) ==
    (b[1] - a[1]) * (c[2] - a[2]) - (b[2] - a[2]) * (c[1] - a[1])

\* the in-circle determinant: for a, b, c counter-clockwise it is positive
\* when d is inside their circle, zero when d is on it
InCircle(a, b, c, d) ==
    LET adx == a[1] - d[1]
        ady == a[2] - d[2]
        bdx == b[1] - d[1]
        bdy == b[2] - d[2]
        cdx == c[1] - d[1]
        cdy == c[2] - d[2]
    IN  (adx * adx + ady * ady) * (bdx * cdy - cdx * bdy)
        - (bdx * bdx + bdy * bdy) * (adx * cdy - cdx * ady)
        + (cdx * cdx + cdy * cdy) * (adx * bdy - bdx * ady)

Sign(x) == IF x > 0 THEN 1 ELSE IF x < 0 THEN -1 ELSE 0

\* the triangles of the Delaunay triangulation of the points, as triples of
\* positions i < j < k in the sequence.  A point equal to an earlier one is
\* skipped.  A triangle's circle holds no other point inside; where further
\* points lie on the circle, the triangles of those points fan out from the
\* one of lowest position, which gives one triangulation of them.
DelaunayTriangles(points) ==
    LET n == Len(points)
        kept == {i \in 1..n : \A j \in 1..i - 1 : points[j] # points[i]}
        Empty(i, j, k) ==
            LET a == points[i]
                b == points[j]
                c == points[k]
                o == Sign(Orient(a, b, c))
            IN  /\ o # 0
                /\ \A d \in kept :
                      LET in == o * Sign(InCircle(a, b, c, points[d])) IN
                      \/ d = i \/ d = j \/ d = k
                      \/ in < 0
                      \/ /\ in = 0
                         /\ i < d
                         /\ Sign(Orient(b, c, points[d])) = Sign(Orient(b, c, a))
    IN  UNION { UNION { { <<i, j, k>> : k \in {k \in kept : k > j /\ Empty(i, j, k)} }
                        : j \in {j \in kept : j > i} }
                : i \in kept }

\* a triangle's corners, counter-clockwise, as indices from 0
Corners(points, t) ==
    IF Orient(points[t[1]], points[t[2]], points[t[3]]) > 0
    THEN <<t[1] - 1, t[2] - 1, t[3] - 1>>
    ELSE <<t[1] - 1, t[3] - 1, t[2] - 1>>

Before(t, u) ==
    \/ t[1] < u[1]
    \/ t[1] = u[1] /\ t[2] < u[2]
    \/ t[1] = u[1] /\ t[2] = u[2] /\ t[3] <= u[3]

\* the triangles one after another in the order of their positions, three
\* indices each
Flatten(points, tris) ==
    LET rank == [t \in tris |-> Cardinality({u \in tris : Before(u, t)})]
        nth == [n \in 1..Cardinality(tris) |-> CHOOSE t \in tris : rank[t] = n]
    IN  [m \in 1..3 * Cardinality(tris) |->
            Corners(points, nth[((m - 1) \div 3) + 1])[((m - 1) % 3) + 1]]

\* line 131: delaunator::triangulate(&points).triangles
triangulate(points) == Flatten(points, DelaunayTriangles(points))

\* a fraction num/den
Fraction(num, den) == <<num, den>>

\* lines 134-137: position is the point, uv is the point divided by size - 1
Vertex(p, size) ==
    [position |-> p,
     uv |-> <<Fraction(p[1], Unit(size) * (size - 1)),
              Fraction(p[2], Unit(size) * (size - 1))>>]

\* the largest chunk size below the reference size the model generates
MaxSize == 4
\* densities in hundredths, all in (0, 1]
Densities == {10, 25, 50, 75, 100}
\* the arguments of the calls: every size with every density, and the
\* reference call generate(10, 1.0)
MeshInputs == ((0..MaxSize) \X Densities) \cup {<<10, 100>>}

\* how a u32 overflow ends the call: the build with overflow checks panics
\* at the subtraction; the build without wraps to 4294967295 and the loop
\* that follows pushes points until the memory is exhausted
Overflowed == {"panicked", "exhausted"}

\* generate is called: line 79
GenerateCall(size, density) ==
    /\ mesh.phase \in {"none", "done"} \cup Overflowed
    /\ mesh' = [phase |-> "border", size |-> size, density |-> density,
                points |-> <<>>, indices |-> <<>>, num_indices |-> 0,
                vertices |-> <<>>]
    /\ UNCHANGED <<loop, context, camera, keyboard, call>>

\* a mesh whose left and right edges have no points
Border_two_edges ==
    /\ mesh.phase = "border"
    /\ mesh' = [mesh EXCEPT !.phase = "inner",
                            !.points = edge_points_x(mesh.size)]
    /\ UNCHANGED <<loop, context, camera, keyboard, call>>

\* lines 82-112: the border; size - 1 is evaluated for the second loop
Border ==
    /\ mesh.phase = "border"
    /\ IF Underflows(mesh.size, 1)
       THEN \E end \in Overflowed : mesh' = [mesh EXCEPT !.phase = end]
       ELSE mesh' = [mesh EXCEPT !.phase = "inner",
                                 !.points = edge_points_x(mesh.size)
                                                \o edge_points_y(mesh.size)]
    /\ UNCHANGED <<loop, context, camera, keyboard, call>>

\* lines 114-129: the interior points; size - 2 is evaluated first
Inner ==
    /\ mesh.phase = "inner"
    /\ IF Underflows(mesh.size, 2)
       THEN \E end \in Overflowed : mesh' = [mesh EXCEPT !.phase = end]
       ELSE mesh' = [mesh EXCEPT
                        !.phase = "triangulate",
                        !.points = @ \o inner_points(mesh.size,
                                        num_inner_points(mesh.size, mesh.density))]
    /\ UNCHANGED <<loop, context, camera, keyboard, call>>

\* line 132: num_indices is the length of the indices
with_indices(m, indices) ==
    [m EXCEPT !.phase = "vertices",
              !.indices = indices,
              !.num_indices = Len(indices)]

\* lines 131-132: the indices and their number
Triangulate ==
    /\ mesh.phase = "triangulate"
    /\ mesh' = with_indices(mesh, triangulate(mesh.points))
    /\ UNCHANGED <<loop, context, camera, keyboard, call>>

\* vertices made of the points of the four edges only
Assemble_border_only ==
    /\ mesh.phase = "vertices"
    /\ mesh' = [mesh EXCEPT
                    !.phase = "done",
                    !.vertices = [i \in 1..4 * (mesh.size - 1) |->
                                    Vertex(mesh.points[i], mesh.size)]]
    /\ UNCHANGED <<loop, context, camera, keyboard, call>>

\* lines 133-158: one vertex per point, and the buffers
Assemble ==
    /\ mesh.phase = "vertices"
    /\ mesh' = [mesh EXCEPT
                    !.phase = "done",
                    !.vertices = [i \in 1..Len(mesh.points) |->
                                    Vertex(mesh.points[i], mesh.size)]]
    /\ UNCHANGED <<loop, context, camera, keyboard, call>>

NextMesh ==
    \/ \E input \in MeshInputs : GenerateCall(input[1], input[2])
    \/ Border
    \/ Inner
    \/ Triangulate
    \/ Assemble

\* the mesh does not depend on the canvas: one host size is enough
InitMesh == Init /\ client = <<300, 100>>

SpecMesh == InitMesh /\ [][NextMesh]_vars

-----------------------------------------------------------------------------
(* noise/source.rs: TestSource, and the noise texture that WgpuContext::new *)
(* bakes from it.  A coordinate is an integer number of tenths of a radian, *)
(* a sample an integer number of micro-units.                               *)

\* cos of k tenths of a radian, in thousandths, for k = 0 .. 64
CosTenths ==
    << 1000, 995, 980, 955, 921, 878, 825, 765, 697, 622, 540, 454, 362,
       267, 170, 71, -29, -129, -227, -323, -416, -505, -589, -666, -737, -801,
       -857, -904, -942, -971, -990, -999, -998, -987, -967, -936, -897, -848, -791,
       -726, -654, -575, -490, -401, -307, -211, -112, -12, 87, 187, 284, 378,
       469, 554, 635, 709, 776, 835, 886, 927, 960, 983, 997, 1000, 993 >>

\* f32::cos of a coordinate, in thousandths; cos is even
cos(k) == CosTenths[Abs(k) + 1]

\* a sample that mixes the seed in
TestSource_sample_seeded(x, y, seed) == cos(x) * 500 + cos(y) * 500 + seed

\* x.cos() * 0.5 + y.cos() * 0.5
TestSource_sample(x, y, seed) == cos(x) * 500 + cos(y) * 500

\* size_of::<f32>()
pixel_size == 4

\* wgpu::COPY_BYTES_PER_ROW_ALIGNMENT
COPY_BYTES_PER_ROW_ALIGNMENT == 256

\* noise_res = 0.1: tenths of a radian per texel
noise_res == 1

\* the largest of the small texture sizes the model bakes
MaxTex == 3

\* texture sizes: small ones, the one whose rows fill the alignment exactly,
\* and the next
TexSizes == (1..MaxTex) \cup {64, 65}

\* coordinates and seeds sample is applied to on its own
SampleCoords == {-31, 0, 5, 16, 31, 47, 63}
Seeds == {0, 7}

\* a padding that is a whole alignment when the row is already aligned
row_padding_no_wrap(align, unpadded_bytes_per_row) ==
    align - (unpadded_bytes_per_row % align)

\* line 256: the padding of a row
row_padding(align, unpadded_bytes_per_row) ==
    (align - (unpadded_bytes_per_row % align)) % align

\* no texture is being baked
NotBaking == IF call.op = "noise_texture_data" THEN call.phase # "loop" ELSE TRUE

\* TestSource::sample on the coordinates x, y and the seed
Sample(x, y, seed) ==
    /\ NotBaking
    /\ call' = [op |-> "TestSource::sample", arg |-> <<x, y, seed>>,
                result |-> TestSource_sample(x, y, seed)]
    /\ UNCHANGED <<loop, context, camera, keyboard, mesh>>

\* lines 253-265: the row stride and the zeroed buffer of a texture of
\* noise_texture_size texels a side
BakeCall(noise_texture_size) ==
    LET align == COPY_BYTES_PER_ROW_ALIGNMENT
        unpadded_bytes_per_row == pixel_size * noise_texture_size
        padded_bytes_per_row ==
            unpadded_bytes_per_row + row_padding(align, unpadded_bytes_per_row)
        padded_pixels_per_row == padded_bytes_per_row \div pixel_size
    IN  /\ NotBaking
        /\ call' = [op |-> "noise_texture_data",
                    phase |-> IF padded_bytes_per_row % pixel_size # 0
                              THEN "panicked" ELSE "loop",
                    noise_texture_size |-> noise_texture_size,
                    padded_bytes_per_row |-> padded_bytes_per_row,
                    padded_pixels_per_row |-> padded_pixels_per_row,
                    x |-> 0,
                    y |-> 0,
                    noise_texture_data |->
                        [i \in 1..padded_pixels_per_row * noise_texture_size |-> 0]]
        /\ UNCHANGED <<loop, context, camera, keyboard, mesh>>

\* lines 267-275: one turn of the inner loop writes the texel (x, y)
BakeTexel ==
    /\ call.op = "noise_texture_data"
    /\ call.phase = "loop"
    /\ LET noise == TestSource_sample(call.x * noise_res, call.y * noise_res, 0)
           normed == noise \div 2 + 500000
           idx == call.padded_pixels_per_row * call.y + call.x
           row_done == call.y + 1 = call.noise_texture_size
           all_done == row_done /\ call.x + 1 = call.noise_texture_size
       IN  call' = [call EXCEPT
                       !.noise_texture_data[idx + 1] = normed,
                       !.y = IF row_done THEN 0 ELSE @ + 1,
                       !.x = IF row_done THEN @ + 1 ELSE @,
                       !.phase = IF all_done THEN "done" ELSE "loop"]
    /\ UNCHANGED <<loop, context, camera, keyboard, mesh>>

NextNoise ==
    \/ \E x \in SampleCoords : \E y \in SampleCoords : \E seed \in Seeds :
          Sample(x, y, seed)
    \/ \E n \in TexSizes : BakeCall(n)
    \/ BakeTexel

\* neither the samples nor the texture depend on the canvas
SpecNoise == InitMesh /\ [][NextNoise]_vars

-----------------------------------------------------------------------------
(* C1 *)

\* C1: the EventQueue is FIFO.  The events returned by pop so far, followed
\* by the events still queued, are exactly the events appended so far, in the
\* order they were appended: nothing is reordered, lost or duplicated.
C1_Fifo == enqueued = popped \o events

\* two different events were appended, and pop has returned both
C1_Witness ==
    /\ Len(popped) >= 2
    /\ popped[1] # popped[2]
    /\ popped[1].type # "CanvasResize"
    /\ popped[2].type # "CanvasResize"

-----------------------------------------------------------------------------
(* Steps of the handlers, as seen from two successive states *)

\* an input handler ran: it appended, outside a frame
HandlerStep == HostIdle /\ pc' = pc /\ Len(enqueued') > Len(enqueued)

\* a frame began: render ran its resize check
FrameStartStep == pc = "idle" /\ pc' = "drain"

\* the number of CanvasResize events in a sequence
RECURSIVE ResizeCount(_)
ResizeCount(evs) ==
    IF evs = <<>> THEN 0
    ELSE (IF Head(evs).type = "CanvasResize" THEN 1 ELSE 0) + ResizeCount(Tail(evs))

Expected == get_expected_size(client)

-----------------------------------------------------------------------------
(* C2 *)

\* C2: each call of detect_resize (one per input handler call, one at the
\* start of each frame) enqueues exactly one CanvasResize event when the
\* expected size differs from the canvas's stored size in width or in
\* height, and enqueues none when both dimensions are equal.
C2_OneResizePerDetection ==
    [][(HandlerStep \/ FrameStartStep) =>
          ResizeCount(enqueued') - ResizeCount(enqueued) =
              (IF Expected[1] # canvas[1] \/ Expected[2] # canvas[2] THEN 1 ELSE 0)]_vars

\* a handler's detection found the size unchanged and added nothing, then the
\* frame's detection found only the height changed and added one CanvasResize
C2_Witness ==
    /\ pc = "drain"
    /\ steps = <<"detect_resize">>
    /\ Len(enqueued) = 2
    /\ enqueued[1].type = "KeyDown"
    /\ enqueued[2].type = "CanvasResize"
    /\ enqueued[2].new[1] = context.config[1]
    /\ enqueued[2].new[2] # context.config[2]

-----------------------------------------------------------------------------
(* C3 *)

\* the place of a step in the order of a frame
Rank(step) ==
    CASE step = "detect_resize" -> 1
      [] step = "handle_event" -> 2
      [] step = "do_move" -> 3
      [] step = "render" -> 4
      [] step = "request_animation_frame" -> 5
      [] OTHER -> 0

\* C3: the steps a frame has done so far are always an initial part of: the
\* resize check, then one handle_event per queued event until the queue is
\* empty, then the camera move (from the key state), then the draw
\* submission, then the request for the next frame.  No step runs before
\* the one preceding it: only the drain repeats, the camera move starts on
\* an empty queue, and a frame that returns normally has done every step.
C3_FrameOrder ==
    /\ steps # <<>> => steps[1] = "detect_resize"
    /\ \A i \in 1..Len(steps) - 1 :
          \/ Rank(steps[i + 1]) = Rank(steps[i]) + 1
          \/ Rank(steps[i]) = 2 /\ Rank(steps[i + 1]) = 2
          \/ Rank(steps[i]) = 1 /\ Rank(steps[i + 1]) = 3
    /\ pc = "drain" => steps # <<>> /\ Rank(steps[Len(steps)]) <= 2
    /\ pc = "draw" => events = <<>> /\ steps # <<>> /\ steps[Len(steps)] = "do_move"
    /\ pc = "panicked" => steps # <<>> /\ steps[Len(steps)] = "render"
    /\ pc = "idle" /\ steps # <<>> => steps[Len(steps)] = "request_animation_frame"

\* a frame that drained two events went through every step
C3_Witness ==
    /\ pc = "idle"
    /\ steps = <<"detect_resize", "handle_event", "handle_event", "do_move",
                 "render", "request_animation_frame">>

-----------------------------------------------------------------------------
(* C4 *)

\* C4: every event that is in the queue when a frame starts, the frame's own
\* CanvasResize included, is consumed by that frame.  The queue is empty
\* when the draw is submitted, and outside the drain everything appended up
\* to the last frame's resize check has been popped.
C4_DrainedBeforeDraw ==
    /\ pc = "draw" => events = <<>> /\ Len(popped) = Len(enqueued)
    /\ pc # "drain" => Len(popped) >= mark

\* at the draw of a frame that consumed an input event and then the
\* CanvasResize its own resize check had added
C4_Witness ==
    /\ pc = "draw"
    /\ mark >= 2
    /\ Len(popped) = mark
    /\ popped[mark].type = "CanvasResize"
    /\ popped[mark - 1].type # "CanvasResize"
    /\ steps = <<"detect_resize", "handle_event", "handle_event", "do_move">>

-----------------------------------------------------------------------------
(* C5 *)

\* C5: nothing is appended while a frame runs, so a frame pops only events
\* appended before its drain began; an event appended after that is popped
\* by a later frame.
C5_NoAddDuringDrain ==
    /\ pc = "drain" \/ pc = "draw" => Len(enqueued) = mark
    /\ Len(popped) <= mark

\* after a frame, an event has arrived that this frame did not process
C5_Witness ==
    /\ frames >= 1
    /\ pc = "idle"
    /\ mark >= 1
    /\ Len(popped) = mark
    /\ Len(enqueued) > mark
    /\ events = SubSeq(enqueued, mark + 1, Len(enqueued))

-----------------------------------------------------------------------------
(* C6 *)

\* C6: once cleanup has been called (self_ref is None) no frame executes:
\* render is never entered again, the frame counter and last_frame stay as
\* they are, and no frame request is issued (the number of pending requests
\* never grows; a request that was pending is served without running render).
C6_NoFrameAfterCleanup ==
    [][~self_ref =>
          /\ ~self_ref'
          /\ pc' = "idle"
          /\ frames' = frames
          /\ last_frame' = last_frame
          /\ steps' = steps
          /\ popped' = popped
          /\ pending' <= pending]_vars

\* cleanup was called between two frames with a request pending; the host
\* served that request, and events that arrived since wait in the queue
C6_Witness ==
    /\ ~self_ref
    /\ frames >= 1
    /\ pending = 0
    /\ events # <<>>

-----------------------------------------------------------------------------
(* C7 *)

\* C7: a failed draw submission neither crashes the Runtime nor ends the
\* frame loop: no frame callback ends in a panic, and whenever the host is
\* between callbacks and cleanup has not been called, the request for the
\* next frame is pending.
C7_DrawFailureRecovered ==
    /\ pc # "panicked"
    /\ HostIdle /\ render_closure => pending > 0

-----------------------------------------------------------------------------
(* C8 *)

\* C8: from the initial pose, after any frames handling any MouseMove events
\* and any camera moves, -pi/2 < pitch < pi/2 strictly.  The pitch is an
\* integer number of micro-radians and pi = 3141592.65... micro-radians, so
\* pitch < pi/2 is 2 * pitch <= 3141592.
C8_PitchInsidePoles ==
    /\ 2 * camera.pitch <= 3141592
    /\ 2 * camera.pitch >= -3141592

\* two mouse moves drove the pitch into the clamp, and the camera has moved
C8_Witness ==
    /\ Abs(camera.pitch) = PitchLimit
    /\ Len(popped) >= 3
    /\ camera.eye # <<0, 1000000, 0>>
    /\ pc = "idle"

-----------------------------------------------------------------------------
(* C9 *)

\* C9 as claimed: an input handler only appends to the EventQueue and leaves
\* Camera, KeyState, the canvas size and the surface configuration unchanged.
C9_HandlerOnlyAppends ==
    [][HandlerStep =>
          /\ SubSeq(events', 1, Len(events)) = events
          /\ camera' = camera
          /\ keyboard' = keyboard
          /\ canvas' = canvas
          /\ context' = context]_vars

\* C9 as amended: an input handler only appends to the EventQueue (its own
\* event, preceded by a CanvasResize when the expected size differs) and, in
\* that case, sets the canvas's stored size to the expected size; it leaves
\* Camera, KeyState, the surface configuration, the frame counter and the
\* frame requests unchanged, so Camera and KeyState change only in the drain
\* and move steps of a frame.
C9_HandlerAppendsAndSizesCanvas ==
    [][/\ HandlerStep =>
             /\ SubSeq(events', 1, Len(events)) = events
             /\ Len(events') > Len(events)
             /\ camera' = camera
             /\ keyboard' = keyboard
             /\ context' = context
             /\ frames' = frames
             /\ pending' = pending
             /\ canvas' = Expected
       /\ (camera' # camera \/ keyboard' # keyboard) => pc = "drain"]_vars

\* a handler ran while the expected size differed: the canvas has the new
\* size, the surface configuration still has the old one, the key is not
\* yet held
C9_Witness ==
    /\ pc = "idle"
    /\ Len(events) = 2
    /\ events[1].type = "CanvasResize"
    /\ events[2].type = "KeyDown"
    /\ canvas = Expected
    /\ context.config # canvas
    /\ ~is_key_down(keyboard, events[2].key.key)

-----------------------------------------------------------------------------
(* C10 *)

\* C10: resize detection runs before every enqueue and at the start of every
\* frame.  A handler's event is appended last; when the expected size
\* differs, a CanvasResize carrying the expected size is appended directly
\* before it and nothing else; a frame's check appends that CanvasResize
\* alone.  After either, the canvas has the expected size.
C10_ResizeBeforeEvent ==
    [][/\ HandlerStep =>
             LET n == Len(events)
                 m == Len(events')
             IN  /\ SubSeq(events', 1, n) = events
                 /\ events'[m].type # "CanvasResize"
                 /\ canvas' = Expected
                 /\ IF Expected # canvas
                    THEN /\ m = n + 2
                         /\ events'[n + 1].type = "CanvasResize"
                         /\ events'[n + 1].new = Expected
                    ELSE m = n + 1
       /\ FrameStartStep =>
             LET n == Len(events)
                 m == Len(events')
             IN  /\ SubSeq(events', 1, n) = events
                 /\ canvas' = Expected
                 /\ IF Expected # canvas
                    THEN /\ m = n + 1
                         /\ events'[m].type = "CanvasResize"
                         /\ events'[m].new = Expected
                    ELSE m = n]_vars

\* a handler found the size changed; the frame then handled the CanvasResize
\* first and the key event second, its own check having added nothing
C10_Witness ==
    /\ mark = 2
    /\ Len(popped) = 2
    /\ popped[1].type = "CanvasResize"
    /\ popped[2].type = "KeyDown"
    /\ steps = <<"detect_resize", "handle_event", "handle_event">>
    /\ context.config = popped[1].new
    /\ is_key_down(keyboard, Character("w"))

-----------------------------------------------------------------------------
(* C11 *)

\* C11: every CanvasResize event that detect_resize appends, from a handler
\* or from a frame, is built after the new size was set on the canvas: its
\* old size equals its new size and not the size the canvas had before the
\* call, and when it is appended the canvas's stored size is its new size.
C11_OldIsPostUpdateSize ==
    [][\A i \in Len(enqueued) + 1 .. Len(enqueued') :
          enqueued'[i].type = "CanvasResize" =>
              /\ enqueued'[i].old = enqueued'[i].new
              /\ enqueued'[i].old # canvas
              /\ enqueued'[i].new = canvas'
              /\ enqueued'[i].new = Expected]_vars

\* a CanvasResize waits in the queue; its old size is its new size, while the
\* surface still has the size the canvas had before
C11_Witness ==
    /\ events # <<>>
    /\ events[1].type = "CanvasResize"
    /\ events[1].old = events[1].new
    /\ events[1].old = canvas
    /\ context.size # events[1].old

-----------------------------------------------------------------------------
(* C12 *)

\* C12 as claimed: between being appended and being popped, a queued event
\* sits in the queue during at most one later call of detect_resize.
C12_AtMostOneLaterCheck ==
    \A i \in 1..Len(checks) : checks[i][1] <= 1

\* C12 as amended: a queued event sits in the queue during at most one later
\* call of detect_resize made by a frame, the frame that consumes it: outside
\* a frame's drain no queued event has been through a frame's check.  Each
\* later input handler makes one more call of detect_resize over it.
C12_AtMostOneFrameCheck ==
    /\ Len(checks) = Len(events)
    /\ \A i \in 1..Len(checks) :
          /\ checks[i][2] <= 1
          /\ checks[i][2] <= checks[i][1]
          /\ pc # "drain" => checks[i][2] = 0

\* the frame is draining an event that sat through the calls of two later
\* handlers and then through the frame's own call
C12_Witness ==
    /\ pc = "drain"
    /\ events # <<>>
    /\ checks[1] = <<3, 1>>
    /\ popped = <<>>

-----------------------------------------------------------------------------
(* C13 *)

\* C13: handling a CanvasResize report of which the width or the height is
\* zero leaves the surface as it was: the backend surface size and the
\* config width/height keep the values of the last valid report.  A report
\* with both dimensions positive sets them.
C13_BadReportIgnored ==
    [][call'.op = "handle_event" =>
          IF call'.arg.new[1] <= 0 \/ call'.arg.new[2] <= 0
          THEN context' = context
          ELSE context'.size = call'.arg.new /\ context'.config = call'.arg.new]_vars

\* a valid report was applied, then a report of zero width was handled: the
\* surface keeps the valid size
C13_Witness ==
    /\ call.op = "handle_event"
    /\ call.arg.new = <<0, 300>>
    /\ context.size = <<300, 300>>
    /\ context.config = <<300, 300>>

-----------------------------------------------------------------------------
(* C14 *)

\* C14: for every size >= 3 and density in (0, 1], the mesh generate returns
\* has a number of indices that is a multiple of 3, num_indices is that
\* number, and every index is at least 0 and smaller than the number of
\* vertices; generate(10, 1.0) yields at least 3 triangles.
C14_IndicesInRange ==
    mesh.phase = "done" /\ mesh.size >= 3 =>
        /\ Len(mesh.indices) % 3 = 0
        /\ mesh.num_indices = Len(mesh.indices)
        /\ \A n \in 1..Len(mesh.indices) :
              mesh.indices[n] >= 0 /\ mesh.indices[n] < Len(mesh.vertices)
        /\ mesh.size = 10 /\ mesh.density = 100 => mesh.num_indices >= 3 * 3

\* generate(10, 1.0) has returned, and an index names an interior vertex
C14_Witness ==
    /\ mesh.phase = "done"
    /\ mesh.size = 10
    /\ mesh.density = 100
    /\ Len(mesh.vertices) = 100
    /\ \E n \in 1..Len(mesh.indices) : mesh.indices[n] >= 36

-----------------------------------------------------------------------------
(* C15 *)

\* C15: for every size >= 3 and density in (0, 1], every vertex of the mesh
\* generate returns, on the border or inside, has both UV components in
\* [0, 1]: each is a fraction num/den with den > 0 and 0 <= num <= den.
C15_UvInUnitSquare ==
    mesh.phase = "done" /\ mesh.size >= 3 =>
        \A n \in 1..Len(mesh.vertices) :
            \A c \in 1..2 :
                LET uv == mesh.vertices[n].uv[c] IN
                uv[2] > 0 /\ 0 <= uv[1] /\ uv[1] <= uv[2]

-----------------------------------------------------------------------------
(* C16 *)

\* C16: for every size >= 3 and density in (0, 1], every interior point that
\* generate adds lies strictly inside the square of the border, 0 < x < size-1
\* and 0 < y < size-1, and so equals none of the border points.
C16_InteriorStrictlyInside ==
    [][mesh.phase = "inner" /\ mesh'.phase = "triangulate" /\ mesh.size >= 3 =>
          \A n \in Len(mesh.points) + 1 .. Len(mesh'.points) :
              LET p == mesh'.points[n]
                  side == (mesh.size - 1) * Unit(mesh.size)
              IN  /\ 0 < p[1] /\ p[1] < side
                  /\ 0 < p[2] /\ p[2] < side
                  /\ \A m \in 1..Len(mesh.points) : mesh.points[m] # p]_vars

-----------------------------------------------------------------------------
(* C17 *)

\* C17: a call of generate with size < 3 ends in a DegenerateInputError: it
\* returns no mesh and does not end in an arithmetic overflow.
C17_SmallSizeIsAnError ==
    mesh.phase \in {"done", "DegenerateInputError"} \cup Overflowed
        /\ mesh.size < 3
    => mesh.phase = "DegenerateInputError"

-----------------------------------------------------------------------------
(* C18 *)

\* the keys the KeyTracker is told about, and one it never is
WatchedKeys ==
    {KeyboardKey_extract(s) : s \in TrackedStrings} \cup {Character("a")}

\* C18: a new KeyTracker reports every key as not down.  set_key_down(k)
\* makes is_key_down(k) true and set_key_up(k) makes it false, whatever it
\* was before, and neither changes is_key_down of any other key; no other
\* step changes is_key_down of any key.  So is_key_down(k) is true exactly
\* when the most recent call for k was set_key_down, and false for a key
\* that was never passed.
C18_KeyTracker ==
    /\ \A k \in WatchedKeys : ~is_key_down(keyboard, k)
    /\ [][/\ call'.op = "set_key_down" => is_key_down(keyboard', call'.arg)
          /\ call'.op = "set_key_up" => ~is_key_down(keyboard', call'.arg)
          /\ \A k \in WatchedKeys :
                is_key_down(keyboard', k) # is_key_down(keyboard, k) =>
                    /\ call'.op = "set_key_down" \/ call'.op = "set_key_up"
                    /\ call'.arg = k]_vars

\* 'w' was just set down while 's' has been set up and Shift is down; 'a' was
\* never passed
C18_Witness ==
    /\ call.op = "set_key_down"
    /\ call.arg = Character("w")
    /\ is_key_down(keyboard, Character("w"))
    /\ DOMAIN keyboard = WatchedKeys \ {Character("a")}
    /\ ~is_key_down(keyboard, Character("s"))
    /\ is_key_down(keyboard, Named("Shift"))
    /\ ~is_key_down(keyboard, Character("a"))

-----------------------------------------------------------------------------
(* C19 *)

\* the variants of KeyboardKey without a field
KeyVariants ==
    {"Alt", "AltGr", "CapsLock", "Control", "Fn", "FnLock", "Hyper", "Meta",
     "NumLock", "ScrollLock", "Shift", "Super", "Symbol", "SymbolLock", "Dead",
     "Unidentified"}

\* C19: the extract functions return a value for every input.  Every key
\* string gives a KeyboardKey: one of the variants without a field, or
\* Character of the string's character; a string that is not the name of a
\* key and is not a single character gives Unidentified.  Every button
\* number gives a MouseButton, and a number other than 0, 1, 2 gives
\* OtherButton of that number.
C19_ExtractTotal ==
    /\ call.op = "KeyboardKey::extract" =>
          /\ \/ call.result.kind \in KeyVariants /\ call.result.ch = ""
             \/ /\ call.result.kind = "Character"
                /\ Len(call.arg) = 1
                /\ call.result.ch = call.arg[1]
          /\ call.arg \notin NamedKeyStrings /\ Len(call.arg) # 1 =>
                call.result = Named("Unidentified")
    /\ call.op = "MouseButton::extract" =>
          /\ call.result.kind \in {"Left", "Middle", "Right", "OtherButton"}
          /\ call.arg \notin {0, 1, 2} =>
                call.result.kind = "OtherButton" /\ call.result.n = call.arg

\* extract was applied to a key string it does not know
C19_Witness ==
    /\ call.op = "KeyboardKey::extract"
    /\ call.arg = <<"E", "n", "t", "e", "r">>
    /\ call.result = Named("Unidentified")

-----------------------------------------------------------------------------
(* C20 *)

\* +1, -1 or 0: which of two opposite keys is held when the frame moves
Net(plus, minus) ==
    (IF is_key_down(keyboard, plus) THEN 1 ELSE 0)
        - (IF is_key_down(keyboard, minus) THEN 1 ELSE 0)

\* C20: the camera move of a frame displaces eye by SPEED x dt x the net
\* direction of the held keys, along the planar forward vector for 'w' (+1)
\* and 's' (-1), along the right vector for 'd' (+1) and 'a' (-1), and along
\* up for Space (+1) and Shift (-1); two opposite keys held cancel, and
\* nothing else of the camera changes.  SPEED x dt is 500 micro-units per
\* millisecond of dt.  At yaw 0 forward is the x axis, right the z axis and
\* up the y axis; with only 'w' held and dt = 100 ms, eye moves by 50000
\* micro-units (0.05) in x and by 0 in y and z.
C20_EyeDisplacement ==
    [][pc = "drain" /\ pc' = "draw" =>
          LET f == Net(Character("w"), Character("s"))
              r == Net(Character("d"), Character("a"))
              u == Net(Character(" "), Named("Shift"))
              by == <<camera'.eye[1] - camera.eye[1],
                      camera'.eye[2] - camera.eye[2],
                      camera'.eye[3] - camera.eye[3]>>
              fw == get_forward(camera)
              rg == get_right(camera)
          IN  /\ camera' = [camera EXCEPT !.eye = camera'.eye]
              /\ by = <<(500 * dt * (f * fw[1] + r * rg[1])) \div 1000,
                        500 * dt * u,
                        (500 * dt * (f * fw[3] + r * rg[3])) \div 1000>>
              /\ camera.yaw = 0 => by = <<500 * dt * f, 500 * dt * u, 500 * dt * r>>
              /\ (f = 1 /\ r = 0 /\ u = 0 /\ camera.yaw = 0 /\ dt = 100) =>
                    by = <<50000, 0, 0>>]_vars

\* the first frame moved the eye by 0.05 along x with 'w' held; in the second
\* frame 's' is held as well and the eye has not moved
C20_Witness ==
    /\ pc = "draw"
    /\ frames = 1
    /\ is_key_down(keyboard, Character("w"))
    /\ is_key_down(keyboard, Character("s"))
    /\ camera.yaw = 0
    /\ camera.eye = <<50000, 1000000, 0>>

-----------------------------------------------------------------------------
(* C21 *)

\* C21: when a frame begins, dt is the frame's timestamp minus the previous
\* frame's timestamp (in milliseconds; the code divides by 1000 for seconds)
\* and last_frame becomes the frame's timestamp.  Before a frame begins,
\* last_frame holds the previous timestamp; before the first frame that is
\* 0, the session's time origin, so the first dt is the time elapsed since
\* the session started.
C21_DtIsTimestampDelta ==
    [][FrameStartStep =>
          /\ last_frame = time
          /\ dt' = time' - time
          /\ last_frame' = time'
          /\ frames = 0 => last_frame = 0 /\ dt' = time']_vars

\* the second frame began 16 ms after the first, which began 100 ms after
\* the session started
C21_Witness ==
    /\ pc = "drain"
    /\ frames = 1
    /\ time = 116
    /\ last_frame = 116
    /\ dt = 16

-----------------------------------------------------------------------------
(* C22 *)

\* C22: TestSource::sample has no state and ignores the seed: a call with
\* the coordinates of the call before it returns the value that call
\* returned, whatever the two seeds are.  Every value it returns lies in
\* [-1, 1] (in micro-units), and at (0, 0) it returns 1.0 for every seed.
C22_SamplePureAndBounded ==
    [][call'.op = "TestSource::sample" =>
          /\ call'.result >= -1000000
          /\ call'.result <= 1000000
          /\ call'.arg[1] = 0 /\ call'.arg[2] = 0 => call'.result = 1000000
          /\ ( /\ call.op = "TestSource::sample"
               /\ call.arg[1] = call'.arg[1]
               /\ call.arg[2] = call'.arg[2] ) => call'.result = call.result]_vars

\* sample was applied at the origin with a seed other than 0
C22_Witness ==
    /\ call.op = "TestSource::sample"
    /\ call.arg = <<0, 0, 7>>
    /\ call.result = 1000000

-----------------------------------------------------------------------------
(* C23 *)

\* C23: in the baked texture of N x N texels the row stride in bytes is the
\* smallest multiple of the row alignment that is at least 4 x N, and
\* padded_pixels_per_row is that stride in texels; the buffer has
\* padded_pixels_per_row x N cells; the cell padded_pixels_per_row * y + x
\* holds (sample(x, y) + 1) / 2 of the texel (x, y), a value in [0, 1];
\* every other cell, the padding that ends each row, is zero.
C23_BakedLayout ==
    call.op = "noise_texture_data" /\ call.phase = "done" =>
        LET n == call.noise_texture_size
            stride == call.padded_bytes_per_row
            ppr == call.padded_pixels_per_row
            data == call.noise_texture_data
        IN  /\ stride % 256 = 0
            /\ stride >= 4 * n
            /\ stride - 256 < 4 * n
            /\ ppr * 4 = stride
            /\ Len(data) = ppr * n
            /\ \A x \in 0..n - 1 : \A y \in 0..n - 1 :
                  /\ 2 * data[ppr * y + x + 1] =
                        TestSource_sample(x, y, 0) + 1000000
                  /\ data[ppr * y + x + 1] >= 0
                  /\ data[ppr * y + x + 1] <= 1000000
            /\ \A i \in 1..Len(data) : (i - 1) % ppr >= n => data[i] = 0

\* a texture of 65 texels a side is baked: its rows take two alignments, the
\* last texel is written and the cell after the first row's texels is zero
C23_Witness ==
    /\ call.op = "noise_texture_data"
    /\ call.phase = "done"
    /\ call.noise_texture_size = 65
    /\ call.padded_pixels_per_row = 128
    /\ call.noise_texture_data[128 * 64 + 64 + 1] = 996500
    /\ call.noise_texture_data[65 + 1] = 0

-----------------------------------------------------------------------------
(* C24 *)

\* the lattice points on the perimeter of the square [0, size-1] x [0, size-1]
Perimeter(size) ==
    { <<i * Unit(size), j * Unit(size)>> :
        <<i, j>> \in { q \in (0..size - 1) \X (0..size - 1) :
                          q[1] \in {0, size - 1} \/ q[2] \in {0, size - 1} } }

\* C24: for every size >= 2, the points generate has when the border is
\* done are 4 * (size - 1) points, no two of them equal, and they are exactly
\* the lattice points on the perimeter of the square: every point of each of
\* the four edges, the four corners among them.  They stay the first points
\* of the mesh when the interior points are added.
C24_BorderIsPerimeter ==
    mesh.phase \in {"inner", "triangulate", "vertices", "done"} /\ mesh.size >= 2 =>
        LET n == 4 * (mesh.size - 1)
            side == (mesh.size - 1) * Unit(mesh.size)
        IN  /\ Len(mesh.points) >= n
            /\ mesh.phase = "inner" => Len(mesh.points) = n
            /\ \A i \in 1..n : \A j \in 1..n :
                  mesh.points[i] = mesh.points[j] => i = j
            /\ { mesh.points[i] : i \in 1..n } = Perimeter(mesh.size)
            /\ { <<0, 0>>, <<side, 0>>, <<0, side>>, <<side, side>> }
                  \subseteq { mesh.points[i] : i \in 1..n }

\* the border of a chunk of size 4 is done: 12 points, with points of the
\* left and right edges that are not corners
C24_Witness ==
    /\ mesh.phase = "inner"
    /\ mesh.size = 4
    /\ Len(mesh.points) = 12
    /\ \E i \in 1..12 : mesh.points[i] = <<0, 3>>
    /\ \E i \in 1..12 : mesh.points[i] = <<9, 6>>

-----------------------------------------------------------------------------
(* C25 *)

\* the last of the events appended so far for the key k is a KeyDown
LastIsDown(k) ==
    LET of_k == { i \in 1..Len(enqueued) :
                    /\ enqueued[i].type \in {"KeyDown", "KeyUp"}
                    /\ enqueued[i].key.key = k }
    IN  /\ of_k # {}
        /\ \E i \in of_k : /\ \A j \in of_k : j <= i
                             /\ enqueued[i].type = "KeyDown"

\* C25: when a frame's drain ends, the events popped so far are all the
\* events appended so far, in the order they were appended, and every key is
\* held exactly when the last KeyDown or KeyUp appended for it is a KeyDown.
\* The frame's move follows that state: when no key's last event is a
\* KeyDown (every KeyDown was followed by a KeyUp before the frame) the
\* camera does not move, and when 'w' is the one key whose last event is a
\* KeyDown, in this frame or an earlier one, the eye moves forward by
\* SPEED x dt.
C25_LastKeyEventWins ==
    [][pc = "drain" /\ pc' = "draw" =>
          /\ popped = enqueued
          /\ \A s \in KeyPairStrings \cup {<<"a">>} :
                LET k == KeyboardKey_extract(s) IN
                is_key_down(keyboard, k) = LastIsDown(k)
          /\ (\A s \in KeyPairStrings : ~LastIsDown(KeyboardKey_extract(s)))
                => camera' = camera
          /\ (LastIsDown(Character("w")) /\ ~LastIsDown(Character("s")))
                => camera'.eye = <<camera.eye[1] + 500 * dt, camera.eye[2],
                                   camera.eye[3]>>]_vars

\* 'w' went down before the first frame and moved the camera in it; in the
\* second frame it still is held, while 's' went down and up again before
\* the frame and is not
C25_Witness ==
    /\ pc = "draw"
    /\ frames = 1
    /\ Len(popped) = 3
    /\ mark = 3
    /\ popped[1].type = "KeyDown" /\ popped[1].key.key = Character("w")
    /\ popped[2].type = "KeyDown" /\ popped[2].key.key = Character("s")
    /\ popped[3].type = "KeyUp" /\ popped[3].key.key = Character("s")
    /\ is_key_down(keyboard, Character("w"))
    /\ ~is_key_down(keyboard, Character("s"))
    /\ camera.eye = <<58000, 1000000, 0>>

-----------------------------------------------------------------------------
(* C26 *)

\* C26 as claimed: for each change of the host-reported size exactly one
\* CanvasResize event is enqueued in total.  Whenever the canvas's stored size
\* is the host-reported size, so that no detection will enqueue anything
\* until the host size changes again, the CanvasResize events enqueued so
\* far are as many as the changes of the host-reported size so far.
C26_OneResizePerChange ==
    ~Mismatch => ResizeCount(enqueued) = changes

\* C26 as amended: each detection (one per input handler call, one at the
\* start of each frame) that finds the host-reported size different from the
\* canvas's stored size enqueues exactly one CanvasResize event, however
\* often the host size changed since the detection before it, and stores the
\* reported size; a detection that finds the two equal, also after the host
\* size changed and changed back, enqueues none.  So at most one
\* CanvasResize is enqueued per change, however many input events and
\* frames follow, and nothing but a change of the host size makes the stored
\* size differ from the reported one.
C26_OneResizePerDetectedChange ==
    [][/\ ResizeCount(enqueued') <= changes'
       /\ (HandlerStep \/ FrameStartStep) =>
             /\ canvas' = Expected
             /\ ~Mismatch'
             /\ ResizeCount(enqueued') =
                   ResizeCount(enqueued) + (IF Mismatch THEN 1 ELSE 0)
       /\ (~Mismatch /\ Mismatch') => changes' = changes + 1
       /\ ~(HandlerStep \/ FrameStartStep) =>
             ResizeCount(enqueued') = ResizeCount(enqueued)]_vars

\* the host size changed twice before a frame's detection ran: the frame
\* enqueued and handled one CanvasResize, and the input event that followed
\* enqueued none
C26_Witness ==
    /\ changes = 2
    /\ ResizeCount(enqueued) = 1
    /\ ~Mismatch
    /\ frames >= 1
    /\ Len(enqueued) = 2
    /\ enqueued[1].type = "CanvasResize"
    /\ enqueued[2].type = "KeyDown"

-----------------------------------------------------------------------------
(* C27 *)

\* C27: at the draw submission of a frame every canvas size change up to the
\* frame's own resize check has been applied: the surface configuration's
\* width and height are the canvas's stored size, and camera.aspect is the
\* width of that size over its height (as a ratio of pairs: the cross
\* products are equal).  In every reachable state camera.aspect is positive.
C27_SizeAppliedAtDraw ==
    /\ pc = "draw" =>
          /\ context.config = canvas
          /\ camera.aspect[1] * canvas[2] = camera.aspect[2] * canvas[1]
    /\ camera.aspect[1] > 0
    /\ camera.aspect[2] > 0

-----------------------------------------------------------------------------
(* C28 *)

\* the number of draw submissions in the steps a frame has done
Draws(done) == Cardinality({ i \in 1..Len(done) : done[i] = "render" })

\* C28: at most one frame request is pending at any time.  A frame starts by
\* taking the one pending request; every frame that runs ends having
\* submitted exactly one draw, incremented the frame counter by exactly one
\* and issued exactly one request for the next frame; an input handler
\* issues no request.
C28_OneRequestPerFrame ==
    [][/\ pending' <= 1
       /\ FrameStartStep => pending = 1 /\ pending' = 0
       /\ (pc = "draw" /\ pc' # "draw") =>
             /\ Draws(steps') = 1
             /\ frames' = frames + 1
             /\ pending' = pending + 1
       /\ HandlerStep => pending' = pending]_vars

-----------------------------------------------------------------------------
(* C29 *)

\* every key but k has the entry it had
OtherKeysKept(k) ==
    \A j \in (DOMAIN keyboard \cup DOMAIN keyboard') \ {k} :
        /\ j \in DOMAIN keyboard
        /\ j \in DOMAIN keyboard'
        /\ keyboard'[j] = keyboard[j]

\* C29: the handling of an event changes, of the surface, the camera and the
\* KeyState, only the part of the event's type: a KeyDown or KeyUp only the
\* KeyState entry of its key (to held, to not held); a MouseMove only the
\* camera's yaw and pitch, the yaw by movement_x x 0.002 without a clamp; a
\* CanvasResize only the surface (size and configuration) and camera.aspect;
\* a MouseDown or MouseUp nothing.  It leaves the canvas, the frame counter,
\* last_frame and the frame requests alone.  The camera move of a frame
\* changes only eye.
C29_EventChangesOwnPart ==
    [][/\ Len(popped') = Len(popped) + 1 =>
             LET e == popped'[Len(popped')] IN
             /\ canvas' = canvas
             /\ frames' = frames
             /\ last_frame' = last_frame
             /\ pending' = pending
             /\ e.type \in {"KeyDown", "KeyUp"} =>
                   /\ context' = context
                   /\ camera' = camera
                   /\ OtherKeysKept(e.key.key)
                   /\ is_key_down(keyboard', e.key.key) = (e.type = "KeyDown")
             /\ e.type = "MouseMove" =>
                   /\ context' = context
                   /\ keyboard' = keyboard
                   /\ camera' = [camera EXCEPT !.yaw = camera'.yaw,
                                               !.pitch = camera'.pitch]
                   /\ camera'.yaw = camera.yaw + e.mouse.movement_x * 2000
             /\ e.type = "CanvasResize" =>
                   /\ keyboard' = keyboard
                   /\ camera' = [camera EXCEPT !.aspect = camera'.aspect]
                   /\ context'.config = e.new
                   /\ camera'.aspect = e.new
             /\ e.type \in {"MouseDown", "MouseUp"} =>
                   /\ context' = context
                   /\ camera' = camera
                   /\ keyboard' = keyboard
       /\ (pc = "drain" /\ pc' = "draw") =>
             /\ camera' = [camera EXCEPT !.eye = camera'.eye]
             /\ context' = context
             /\ keyboard' = keyboard]_vars

\* a frame has handled a CanvasResize, a KeyDown and a MouseMove: the surface
\* and the aspect have the new size, the key is held, the yaw is a quarter
\* turn and the pitch is at its limit; the move has then changed the eye
C29_Witness ==
    /\ pc = "draw"
    /\ Len(popped) = 3
    /\ {popped[i].type : i \in 1..3} = {"CanvasResize", "KeyDown", "MouseMove"}
    /\ context.config = canvas
    /\ camera.aspect = canvas
    /\ camera.aspect # <<300, 150>>
    /\ is_key_down(keyboard, Character("w"))
    /\ camera.yaw = QuarterTurn
    /\ camera.pitch = PitchLimit
    /\ camera.eye # <<0, 1000000, 0>>

-----------------------------------------------------------------------------
(* C30 *)

\* the variant that has the name of a named key's string; AltGraph is AltGr
VariantOf(s) ==
    CASE s = <<"A","l","t">> -> "Alt"
      [] s = <<"A","l","t","G","r","a","p","h">> -> "AltGr"
      [] s = <<"C","a","p","s","L","o","c","k">> -> "CapsLock"
      [] s = <<"C","o","n","t","r","o","l">> -> "Control"
      [] s = <<"F","n">> -> "Fn"
      [] s = <<"F","n","L","o","c","k">> -> "FnLock"
      [] s = <<"H","y","p","e","r">> -> "Hyper"
      [] s = <<"M","e","t","a">> -> "Meta"
      [] s = <<"N","u","m","L","o","c","k">> -> "NumLock"
      [] s = <<"S","c","r","o","l","l","L","o","c","k">> -> "ScrollLock"
      [] s = <<"S","h","i","f","t">> -> "Shift"
      [] s = <<"S","u","p","e","r">> -> "Super"
      [] s = <<"S","y","m","b","o","l">> -> "Symbol"
      [] s = <<"S","y","m","b","o","l","L","o","c","k">> -> "SymbolLock"
      [] s = <<"D","e","a","d">> -> "Dead"
      [] OTHER -> "Unidentified"

\* C30: KeyboardKey::extract gives, for the string of a named key, the
\* variant of that name, so that no two named keys give the same key; and
\* for a string of a single character c it gives Character(c).
C30_NamedKeysDistinct ==
    call.op = "KeyboardKey::extract" =>
        /\ call.arg \in NamedKeyStrings =>
              /\ call.result = Named(VariantOf(call.arg))
              /\ \A s \in NamedKeyStrings \ {call.arg} :
                    KeyboardKey_extract(s) # call.result
        /\ Len(call.arg) = 1 => call.result = Character(call.arg[1])

=============================================================================
